---------------------------- MODULE Spec2Model ----------------------------
(***************************************************************************)
(* Model of the CHRONO-HEALTH inference pipeline:                          *)
(*   process_message/index.ts : extractSeverity, buildFeatureVector        *)
(*   predict_disease/index.ts : loadModelFiles, scaleInput, softmax and    *)
(*                              the serve handler                          *)
(*   booster_min.js           : weightFor, predictXGB (placeholder scorer) *)
(*                                                                         *)
(* Arrays are 0-based in the source and 1-based here: slot i of the source *)
(* is element i+1 of the sequence that models it.                          *)
(***************************************************************************)
EXTENDS Integers, Sequences, FiniteSets, TLC

VARIABLES
    message,    \* process_message: the text handed to the extractor
    severity,   \* result of extractSeverity(message), or 0 before the call
    vec,        \* result of buildFeatureVector(message), or <<>> before the call
    scaleArgs,  \* scaleInput: the arguments [arr, scaler]
    scaled,     \* [done, out]: the result of scaleInput once it has returned
    scoreArgs,  \* predictXGB: the arguments [features, labels]
    scoreOut,   \* [done, threw, logits]: the outcome of predictXGB
    smArg,      \* softmax: its argument, the logits
    smOut,      \* [done, probs]: the result of softmax once it has returned
    selArg,     \* selection (lines 56-57): the values [probs, labels] it reads
    selOut,     \* [done, bestIndex, prediction]: what it computes
    files,      \* predict_disease: the artifact files on disk
    loads,      \* number of loadModelFiles() calls this process has made
    runs        \* the runs of the handler, one per request of this process

vars == <<message, severity, vec, scaleArgs, scaled, scoreArgs, scoreOut,
          smArg, smOut, selArg, selOut, files, loads, runs>>

-----------------------------------------------------------------------------
(* Bounds of the model                                                     *)

MaxWords == 3        \* words per generated message
MaxArr == 2          \* length of the arrays handed to scaleInput / predictXGB
MaxLabels == 3       \* size of the label set handed to predictXGB
MaxLogits == 3       \* length of the arrays handed to softmax
MaxSymptoms == 2     \* length of the symptoms array of a request
MaxRequests == 2     \* requests received by one process

-----------------------------------------------------------------------------
(* Strings: String.prototype.toLowerCase, includes, replace(/_/g, " ")     *)
(*                                                                         *)
(* The texts of the model are over the characters U+0000..U+00FF.  On that *)
(* range toLowerCase maps A..Z and the letters U+00C0..U+00DE other than   *)
(* the multiplication sign U+00D7 to the character 32 places further on,   *)
(* and leaves every other character alone.  Characters beyond U+00FF with  *)
(* a lower-case form of their own (KELVIN SIGN U+212A, which becomes "k",  *)
(* for one) are outside the texts of the model.                            *)

UpperChars == <<"A","B","C","D","E","F","G","H","I","J","K","L","M",
                "N","O","P","Q","R","S","T","U","V","W","X","Y","Z",
                "À","Á","Â","Ã","Ä","Å","Æ","Ç","È","É","Ê","Ë","Ì",
                "Í","Î","Ï","Ð","Ñ","Ò","Ó","Ô","Õ","Ö","Ø","Ù","Ú",
                "Û","Ü","Ý","Þ">>
LowerChars == <<"a","b","c","d","e","f","g","h","i","j","k","l","m",
                "n","o","p","q","r","s","t","u","v","w","x","y","z",
                "à","á","â","ã","ä","å","æ","ç","è","é","ê","ë","ì",
                "í","î","ï","ð","ñ","ò","ó","ô","õ","ö","ø","ù","ú",
                "û","ü","ý","þ">>

\* the lower-case form of each character that has one
LowerOf ==
    [c \in {UpperChars[k] : k \in 1..Len(UpperChars)} |->
        LowerChars[CHOOSE k \in 1..Len(UpperChars) : UpperChars[k] = c]]

LowerChar(c) == IF c \in DOMAIN LowerOf THEN LowerOf[c] ELSE c

RECURSIVE toLowerCase(_)
toLowerCase(s) ==
    IF Len(s) = 0 THEN ""
    ELSE LowerChar(SubSeq(s, 1, 1)) \o toLowerCase(SubSeq(s, 2, Len(s)))

\* s.includes(t): t occurs as a contiguous substring of s
includes(s, t) ==
    \E k \in 0..(Len(s) - Len(t)) : SubSeq(s, k + 1, k + Len(t)) = t

RECURSIVE replaceUnderscores(_)
replaceUnderscores(s) ==
    IF Len(s) = 0 THEN ""
    ELSE (IF SubSeq(s, 1, 1) = "_" THEN " " ELSE SubSeq(s, 1, 1))
         \o replaceUnderscores(SubSeq(s, 2, Len(s)))

-----------------------------------------------------------------------------
(* process_message/index.ts                                                *)

FEATURE_NAMES == <<
    "age", "gender", "smoker", "heart_rate", "blood_pressure",
    "cholesterol_level",
    "fever", "cough", "fatigue", "shortness_of_breath", "headache",
    "runny_nose", "sore_throat", "chest_pain", "body_ache", "nausea",
    "vomiting", "diarrhea", "dizziness", "chills", "loss_of_smell",
    "loss_of_taste", "wheezing", "rash", "eye_irritation", "ear_pain",
    "sweating", "joint_pain", "abdominal_pain", "back_pain",
    "blurred_vision", "dry_cough", "wet_cough", "sinus_pressure",
    "sneezing", "rapid_heartbeat", "slow_heartbeat", "dehydration",
    "loss_of_appetite", "sleep_disturbance", "anxiety", "irritability",
    "muscle_spasm", "skin_redness", "itchiness", "breathing_difficulty" >>

\* Object.entries(severityMap): string keys, in insertion order
severityMap == <<
    <<"severe", 3>>, <<"high", 3>>, <<"bad", 3>>,
    <<"moderate", 2>>, <<"medium", 2>>,
    <<"mild", 1>>, <<"slight", 1>> >>

\* faulty variant: the scan runs over the entries from the last to the first
extractSeverityReversed(msg) ==
    LET m == toLowerCase(msg)
        hits == {k \in 1..Len(severityMap) : includes(m, severityMap[k][1])}
    IN  IF hits = {} THEN 1
        ELSE severityMap[CHOOSE k \in hits : \A h \in hits : h <= k][2]

extractSeverity(msg) ==
    LET m == toLowerCase(msg)
        hits == {k \in 1..Len(severityMap) : includes(m, severityMap[k][1])}
    IN  IF hits = {} THEN 1
        ELSE severityMap[CHOOSE k \in hits : \A h \in hits : k <= h][2]

\* vec[0..5] of the source
VitalDefaults == <<25, 1, 0, 80, 120, 180>>

\* faulty variant: the vitals guard "if (i < 6) return" is missing
buildFeatureVectorNoGuard(msgIn) ==
    LET msg == toLowerCase(msgIn)
        sev == extractSeverity(msg)
    IN  [k \in 1..Len(FEATURE_NAMES) |->
            IF includes(msg, replaceUnderscores(FEATURE_NAMES[k])) THEN sev
            ELSE IF k <= 6 THEN VitalDefaults[k]
            ELSE 0]

\* faulty variant: a symptom that is present is marked 1, whatever the severity
buildFeatureVectorBinary(msgIn) ==
    LET msg == toLowerCase(msgIn)
    IN  [k \in 1..Len(FEATURE_NAMES) |->
            IF k <= 6 THEN VitalDefaults[k]
            ELSE IF includes(msg, replaceUnderscores(FEATURE_NAMES[k])) THEN 1
            ELSE 0]

buildFeatureVector(msgIn) ==
    LET msg == toLowerCase(msgIn)
        sev == extractSeverity(msg)
    IN  [k \in 1..Len(FEATURE_NAMES) |->
            IF k <= 6 THEN VitalDefaults[k]
            ELSE IF includes(msg, replaceUnderscores(FEATURE_NAMES[k])) THEN sev
            ELSE 0]

\* Input texts: up to MaxWords words of Vocabulary joined by single spaces,
\* and the scenario sentence.
Vocabulary == {"severe", "MILD", "Moderate", "slightly bad", "Dry Cough",
               "heart rate", "age", "SEVÈRE"}

ScenarioText == "I have a severe headache and mild cough"

RECURSIVE MessagesOf(_)
MessagesOf(n) ==
    IF n = 0 THEN {""}
    ELSE LET shorter == MessagesOf(n - 1)
         IN  shorter \cup {IF m = "" THEN w ELSE m \o " " \o w :
                             m \in shorter, w \in Vocabulary}


-----------------------------------------------------------------------------
(* Integers beyond the 32-bit range that TLC computes in are kept as       *)
(* sequences of 14-bit limbs, least significant first.                     *)

Abs(k) == IF k < 0 THEN -k ELSE k

LimbBase == 2^14

RECURSIVE CarryFrom(_, _)
CarryFrom(s, c) ==
    IF Len(s) = 0 THEN (IF c = 0 THEN <<>> ELSE <<c>>)
    ELSE <<(s[1] + c) % LimbBase>> \o CarryFrom(Tail(s), (s[1] + c) \div LimbBase)

Pad(x, n) == [k \in 1..n |-> IF k <= Len(x) THEN x[k] ELSE 0]

\* limbs of 0 <= n < 2^31
ToLimbs(n) == <<n % LimbBase, (n \div LimbBase) % LimbBase, n \div (LimbBase * LimbBase)>>

\* limbs of h * 2^16 + l
LimbsOfHalves(h, l) == CarryFrom(<<l % LimbBase, (l \div LimbBase) + (4 * h)>>, 0)

RECURSIVE ConvSum(_, _, _, _)
ConvSum(x, y, k, i) ==
    IF i > Len(x) THEN 0
    ELSE (IF k + 1 - i \in 1..Len(y) THEN x[i] * y[k + 1 - i] ELSE 0)
         + ConvSum(x, y, k, i + 1)

BigMul(x, y) ==
    CarryFrom([k \in 1..(Len(x) + Len(y) - 1) |-> ConvSum(x, y, k, 1)], 0)

BigAdd(x, y) ==
    LET n == IF Len(x) > Len(y) THEN Len(x) ELSE Len(y)
    IN  CarryFrom([k \in 1..n |-> Pad(x, n)[k] + Pad(y, n)[k]], 0)

BigLess(x, y) ==
    LET n == IF Len(x) > Len(y) THEN Len(x) ELSE Len(y)
        a == Pad(x, n)
        b == Pad(y, n)
    IN  \E k \in 1..n : a[k] < b[k] /\ \A h \in (k + 1)..n : a[h] = b[h]

RECURSIVE BorrowFrom(_, _, _)
BorrowFrom(a, b, brw) ==
    IF Len(a) = 0 THEN <<>>
    ELSE LET d == a[1] - b[1] - brw
         IN  <<IF d < 0 THEN d + LimbBase ELSE d>>
             \o BorrowFrom(Tail(a), Tail(b), IF d < 0 THEN 1 ELSE 0)

\* x - y for x >= y
BigSub(x, y) ==
    LET n == IF Len(x) > Len(y) THEN Len(x) ELSE Len(y)
    IN  BorrowFrom(Pad(x, n), Pad(y, n), 0)

RECURSIVE BitLenInt(_)
BitLenInt(n) == IF n = 0 THEN 0 ELSE 1 + BitLenInt(n \div 2)

BitLen(x) ==
    LET nz == {k \in 1..Len(x) : x[k] # 0}
    IN  IF nz = {} THEN 0
        ELSE LET t == CHOOSE k \in nz : \A h \in nz : h <= k
             IN  14 * (t - 1) + BitLenInt(x[t])

\* 2^k in limbs
Pow2(k) == [i \in 1..((k \div 14) + 1) |-> IF i = (k \div 14) + 1 THEN 2^(k % 14) ELSE 0]

\* floor(x / j) for a small j > 0: the limbs 1..k of the quotient, with the
\* remainder rem carried in from the limbs above
RECURSIVE DivSmallFrom(_, _, _, _)
DivSmallFrom(x, j, k, rem) ==
    IF k = 0 THEN <<>>
    ELSE Append(DivSmallFrom(x, j, k - 1, ((rem * LimbBase) + x[k]) % j),
                ((rem * LimbBase) + x[k]) \div j)

DivSmall(x, j) == DivSmallFrom(x, j, Len(x), 0)

\* x without its n lowest limbs
DropLimbs(x, n) == IF n >= Len(x) THEN <<>> ELSE SubSeq(x, n + 1, Len(x))

\* x * 2^k and floor(x / 2^k)
ShiftLeft(x, k) == BigMul(x, Pow2(k))
ShiftRight(x, k) == DivSmall(DropLimbs(x, k \div 14), 2^(k % 14))

\* x / 2^s for s > 0, rounded to the nearest integer, a tie to the even one:
\* q is floor(x / 2^s), r what is left of x and half is 2^(s-1)
RoundedUp(q, r, half) ==
    IF BigLess(half, r) \/ (~BigLess(r, half) /\ Pad(q, 1)[1] % 2 = 1)
    THEN BigAdd(q, <<1>>)
    ELSE q

RoundShift(x, s) ==
    RoundedUp(ShiftRight(x, s), BigSub(x, ShiftLeft(ShiftRight(x, s), s)), Pow2(s - 1))

-----------------------------------------------------------------------------
(* JavaScript values.  A value is a record [t, k, s, m, e]: t is its       *)
(* typeof ("null" for null), and a number is the IEEE-754 double itself:   *)
(* k = "nan", k = "inf" or k = "fin" for the value (-1)^s * m * 2^e, with  *)
(* the sign bit s, m in four limbs, and either 2^52 <= m < 2^53 and        *)
(* e >= -1074 or m < 2^52 and e = -1074 (the subnormals and the two        *)
(* zeros).  Each double has one record, so two numbers other than NaN and  *)
(* the zeros are equal when their records are.  The arithmetic rounds to   *)
(* the nearest double, a tie to the one with an even m, at every           *)
(* operation, as the language does.                                        *)

Finite(s, m, e) == [t |-> "number", k |-> "fin", s |-> s, m |-> Pad(m, 4), e |-> e]
NaN == [t |-> "number", k |-> "nan", s |-> 0, m |-> <<0, 0, 0, 0>>, e |-> 0]
Inf(s) == [t |-> "number", k |-> "inf", s |-> s, m |-> <<0, 0, 0, 0>>, e |-> 0]
Zero(s) == Finite(s, <<>>, -1074)
Infinity == Inf(0)
JSNull == [t |-> "null", k |-> "fin", s |-> 0, m |-> <<0, 0, 0, 0>>, e |-> 0]
Undefined == [t |-> "undefined", k |-> "fin", s |-> 0, m |-> <<0, 0, 0, 0>>, e |-> 0]
\* a non-numeric string
JSString == [t |-> "string", k |-> "fin", s |-> 0, m |-> <<0, 0, 0, 0>>, e |-> 0]

IsNaN(v) == v.t = "number" /\ v.k = "nan"
IsFinite(v) == v.t = "number" /\ v.k = "fin"
IsZero(v) == v.t = "number" /\ v.k = "fin" /\ v.m = <<0, 0, 0, 0>>

\* the double (-1)^s * m * 2^e for m <= 2^53: a mantissa that rounding
\* carried to 2^53 is halved, and from 2^1024 on the double is infinite
Carried(s, m, e) ==
    IF BitLen(m) + e > 1024 THEN Inf(s)
    ELSE IF BitLen(m) = 54 THEN Finite(s, ShiftRight(m, 1), e + 1)
    ELSE Finite(s, m, e)

\* (-1)^s * x * 2^e with the sh lowest bits of x rounded away (sh <= 0: none)
RoundedAt(s, x, e, sh) ==
    IF sh <= 0 THEN Carried(s, ShiftLeft(x, -sh), e + sh)
    ELSE Carried(s, RoundShift(x, sh), e + sh)

\* the double nearest to (-1)^s * x * 2^e (ties to even) for an integer
\* x >= 0 in limbs: 53 bits are kept, fewer where the double is subnormal,
\* and below 2^-1075 the double is a zero
FromBig(s, x, e) ==
    IF BitLen(x) = 0 \/ BitLen(x) + e < -1074 THEN Zero(s)
    ELSE IF BitLen(x) - 53 >= -1074 - e THEN RoundedAt(s, x, e, BitLen(x) - 53)
    ELSE RoundedAt(s, x, e, -1074 - e)

\* the double of an integer |k| < 2^31
FromInt(k) == FromBig(IF k < 0 THEN 1 ELSE 0, ToLimbs(Abs(k)), 0)

\* -a
Neg(a) == IF a.k = "nan" THEN a ELSE [a EXCEPT !.s = 1 - a.s]

\* |a| < |b| for doubles that are not NaN
MagLess(a, b) ==
    IF a.k = "inf" THEN FALSE
    ELSE IF b.k = "inf" THEN TRUE
    ELSE a.e < b.e \/ (a.e = b.e /\ BigLess(a.m, b.m))

\* a < b; FALSE when one of them is NaN, and for the two zeros
Less(a, b) ==
    IF a.k = "nan" \/ b.k = "nan" THEN FALSE
    ELSE IF IsZero(a) /\ IsZero(b) THEN FALSE
    ELSE IF a.s # b.s THEN a.s = 1
    ELSE IF a.s = 0 THEN MagLess(a, b)
    ELSE MagLess(b, a)

\* a === b: NaN equals nothing, and the two zeros are equal
StrictEquals(a, b) ==
    a.k # "nan" /\ b.k # "nan" /\ (a = b \/ (IsZero(a) /\ IsZero(b)))

\* ((-1)^sa * x + (-1)^sb * y) * 2^e for integers x, y in limbs; a sum of
\* two opposite numbers is +0
AddInts(sa, x, sb, y, e) ==
    IF sa = sb THEN FromBig(sa, BigAdd(x, y), e)
    ELSE IF BigLess(x, y) THEN FromBig(sb, BigSub(y, x), e)
    ELSE IF BigLess(y, x) THEN FromBig(sa, BigSub(x, y), e)
    ELSE Zero(0)

\* a + b; an operand below 2^-4 of the last bit of the other one changes
\* nothing
DAdd(a, b) ==
    IF a.k = "nan" \/ b.k = "nan" THEN NaN
    ELSE IF a.k = "inf" THEN (IF b.k = "inf" /\ a.s # b.s THEN NaN ELSE a)
    ELSE IF b.k = "inf" THEN b
    ELSE IF a.e - b.e > 56 THEN a
    ELSE IF b.e - a.e > 56 THEN b
    ELSE IF a.e >= b.e THEN AddInts(a.s, ShiftLeft(a.m, a.e - b.e), b.s, b.m, b.e)
    ELSE AddInts(a.s, a.m, b.s, ShiftLeft(b.m, b.e - a.e), a.e)

\* a - b
DSub(a, b) == DAdd(a, Neg(b))

\* a * b
DMul(a, b) ==
    IF a.k = "nan" \/ b.k = "nan" THEN NaN
    ELSE IF a.k = "inf" \/ b.k = "inf"
    THEN (IF IsZero(a) \/ IsZero(b) THEN NaN ELSE Inf((a.s + b.s) % 2))
    ELSE FromBig((a.s + b.s) % 2, BigMul(a.m, b.m), a.e + b.e)

\* the digit floor(rem / b) of a long division to the base 2^14, counted
\* down from qh, which is not below it
RECURSIVE DivDigit(_, _, _)
DivDigit(rem, b, qh) ==
    IF BigLess(rem, BigMul(b, <<qh>>)) THEN DivDigit(rem, b, qh - 1) ELSE qh

\* Long division to the base 2^14 of rem by b, where 2^55 <= b < 2^56 and
\* rem < 2^14 * b: the digit d for rem, then n more digits, put below the
\* digits q found so far.  The result is twice the quotient, plus 1 when the
\* division leaves a remainder.  The first estimate of a digit, from the two
\* highest limbs of rem and the highest of b, is at most 2 too large.
RECURSIVE LongDiv(_, _, _, _)
RECURSIVE LongDivFrom(_, _, _, _, _)
LongDivFrom(rem, b, q, n, d) ==
    IF n = 0
    THEN BigAdd(BigAdd(<<d>> \o q, <<d>> \o q),
                IF BitLen(BigSub(rem, BigMul(b, <<d>>))) = 0 THEN <<0>> ELSE <<1>>)
    ELSE LongDiv(<<0>> \o BigSub(rem, BigMul(b, <<d>>)), b, <<d>> \o q, n - 1)

LongDiv(rem, b, q, n) ==
    LongDivFrom(rem, b, q, n,
                DivDigit(rem, b,
                         IF ((Pad(rem, 5)[5] * LimbBase) + Pad(rem, 5)[4]) \div b[4] < LimbBase
                         THEN ((Pad(rem, 5)[5] * LimbBase) + Pad(rem, 5)[4]) \div b[4]
                         ELSE LimbBase - 1))

\* a / b; for finite a, b other than 0 both mantissas are brought to 56 bits
\* and the quotient is taken to four digits after the first
DDiv(a, b) ==
    IF a.k = "nan" \/ b.k = "nan" THEN NaN
    ELSE IF a.k = "inf" THEN (IF b.k = "inf" THEN NaN ELSE Inf((a.s + b.s) % 2))
    ELSE IF b.k = "inf" THEN Zero((a.s + b.s) % 2)
    ELSE IF IsZero(b) THEN (IF IsZero(a) THEN NaN ELSE Inf((a.s + b.s) % 2))
    ELSE IF IsZero(a) THEN Zero((a.s + b.s) % 2)
    ELSE FromBig((a.s + b.s) % 2,
                 LongDiv(ShiftLeft(a.m, 56 - BitLen(a.m)),
                         ShiftLeft(b.m, 56 - BitLen(b.m)), <<>>, 4),
                 ((a.e + BitLen(a.m)) - (b.e + BitLen(b.m))) - 57)

\* the double that the decimal literal with the value n / d stands for, the
\* one nearest to it (|n|, d < 2^31)
Dec(n, d) == DDiv(FromInt(n), FromInt(d))

\* ToNumber of the language: null is 0, undefined and a non-numeric string are NaN
ToNumber(v) ==
    IF v.t = "number" THEN v
    ELSE IF v.t = "null" THEN Zero(0)
    ELSE NaN

\* ToBoolean(v) = false, as "||" tests it: 0, -0, NaN, null and undefined
Falsy(v) ==
    IF v.t = "number" THEN v.k = "nan" \/ IsZero(v)
    ELSE v.t \in {"null", "undefined"}

-----------------------------------------------------------------------------
(* booster_min.js: weightFor.  The seed is an int32, and the double        *)
(* product seed * a + b is followed on its integer value in limbs, rounded *)
(* to 53 significant bits (ties to even) at each of its two operations.    *)

\* the double nearest to the integer x (ties to even); here BitLen(x) < 67,
\* so the bits that are dropped all lie in the lowest limb
Round53(x) ==
    IF BitLen(x) <= 53 THEN x
    ELSE LET q == 2^(BitLen(x) - 53)
             rem == x[1] % q
             odd == (x[1] \div q) % 2 = 1
             up == 2 * rem > q \/ (2 * rem = q /\ odd)
             down == [x EXCEPT ![1] = x[1] - rem]
         IN  IF up THEN CarryFrom([down EXCEPT ![1] = down[1] + q], 0) ELSE down

RECURSIVE Xor16(_, _)
Xor16(x, y) ==
    IF x = 0 /\ y = 0 THEN 0
    ELSE (((x % 2) + (y % 2)) % 2) + 2 * Xor16(x \div 2, y \div 2)

\* ToInt32(k * c) for c = hi * 2^16 + lo, as the two 16-bit halves <<high, low>>
\* of its two's-complement pattern (k * c < 2^53, so the product is exact)
MulInt32(k, hi, lo) ==
    <<(k * hi + (k * lo) \div 65536) % 65536, (k * lo) % 65536>>

\* the int32 with the two's-complement halves h, l: [neg, mag], mag its
\* magnitude in limbs
Int32OfHalves(h, l) ==
    IF h >= 32768
    THEN [neg |-> TRUE,
          mag |-> IF l = 0 THEN LimbsOfHalves(65536 - h, 0)
                  ELSE LimbsOfHalves(65535 - h, 65536 - l)]
    ELSE [neg |-> FALSE, mag |-> LimbsOfHalves(h, l)]

XorHalves(x, y) == Int32OfHalves(Xor16(x[1], y[1]), Xor16(x[2], y[2]))

\* seed = (labelIdx + 1) * 1315423911 ^ (featIdx + 1) * 2654435761
Seed(labelIdx, featIdx) ==
    XorHalves(MulInt32(labelIdx + 1, 20071, 50855),    \* 1315423911 = 20071 * 2^16 + 50855
              MulInt32(featIdx + 1, 40503, 31153))     \* 2654435761 = 40503 * 2^16 + 31153

\* the double seed * a
TimesA(seed) ==
    [neg |-> seed.neg, mag |-> Round53(BigMul(seed.mag, ToLimbs(1610612741)))]

\* the double p + b, for b < |p| or p >= 0 or p > -b
PlusConst(p, b) ==
    IF ~p.neg THEN [neg |-> FALSE, mag |-> Round53(Pad(BigAdd(p.mag, b), 6))]
    ELSE IF BigLess(p.mag, b)
         THEN [neg |-> FALSE, mag |-> Round53(Pad(BigSub(b, p.mag), 6))]
    ELSE [neg |-> TRUE, mag |-> Round53(Pad(BigSub(p.mag, b), 6))]

PlusB(p) == PlusConst(p, ToLimbs(805306457))

\* (v >>> 0) % 100000: the low 32 bits of |v| reduced modulo 100000
\* (2^28 mod 100000 = 35456); ToUint32 of a negative v is 2^32 - (|v| mod 2^32),
\* and 2^32 mod 100000 = 67296
Uint32Mod100000(v) ==
    LET low == (v.mag[1] + LimbBase * v.mag[2] + (v.mag[3] % 16) * 35456) % 100000
    IN  IF v.neg /\ ~(v.mag[1] = 0 /\ v.mag[2] = 0 /\ v.mag[3] % 16 = 0)
        THEN (67296 + 100000 - low) % 100000
        ELSE low

\* mixed = ((seed * a + b) >>> 0) % 100000
Mixed(labelIdx, featIdx) ==
    Uint32Mod100000(PlusB(TimesA(Seed(labelIdx, featIdx))))

\* (mixed / 100000) - 0.5
weightOf(labelIdx, featIdx) ==
    DSub(DDiv(FromInt(Mixed(labelIdx, featIdx)), FromInt(100000)), Dec(1, 2))

\* The weights of the index pairs the model reaches, computed once.
WeightTable ==
    [i \in 0..(IF MaxLabels > 3 THEN MaxLabels ELSE 3) |->
        [j \in 0..(IF MaxArr > MaxSymptoms THEN MaxArr ELSE MaxSymptoms) |->
            weightOf(i, j)]]

weightFor(labelIdx, featIdx) == WeightTable[labelIdx][featIdx]

-----------------------------------------------------------------------------
(* booster_min.js: predictXGB.  A value that may or may not be an array is *)
(* a record [kind, items]: items are the elements of an array, the         *)
(* characters of a string, or the values under the keys "0", "1", ... of a *)
(* plain object; null and a number have none.                              *)

Array(items) == [kind |-> "array", items |-> items]
Object(items) == [kind |-> "object", items |-> items]
StringValue(str) == [kind |-> "string", items |-> [k \in 1..Len(str) |-> SubSeq(str, k, k)]]
Null == [kind |-> "null", items |-> <<>>]
Scalar == [kind |-> "number", items |-> <<>>]

\* Array.isArray
IsArray(v) == v.kind = "array"

\* ((i * 37) % 7 - 3) * 0.02
bias(i) == DMul(FromInt(((i * 37) % 7) - 3), Dec(2, 100))

\* the inner loop over j (0-based), from j on, with accumulator s
RECURSIVE Accumulate(_, _, _, _)
Accumulate(i, items, j, s) ==
    IF j >= Len(items) THEN s
    ELSE LET w == weightFor(i, j)
             v == IF items[j + 1].t = "number" THEN items[j + 1] ELSE Zero(0)
         IN  Accumulate(i, items, j + 1, DAdd(s, DMul(w, v)))

\* faulty variant: the per-label bias is left out
predictXGBNoBias(features, labels) ==
    IF ~IsArray(features) THEN [threw |-> TRUE, logits |-> <<>>]
    ELSE LET nLabels == IF IsArray(labels) THEN Len(labels.items) ELSE 3
         IN  [threw |-> FALSE,
              logits |-> [k \in 1..nLabels |->
                            Accumulate(k - 1, features.items, 0, Zero(0))]]

\* predictXGB(features); labels is the binding of the identifier "labels" in
\* the scope of the function (line 8)
predictXGB(features, labels) ==
    IF ~IsArray(features) THEN [threw |-> TRUE, logits |-> <<>>]
    ELSE LET nLabels == IF IsArray(labels) THEN Len(labels.items) ELSE 3
         IN  [threw |-> FALSE,
              logits |-> [k \in 1..nLabels |->
                            DAdd(Accumulate(k - 1, features.items, 0, Zero(0)),
                                 bias(k - 1))]]

-----------------------------------------------------------------------------
(* predict_disease/index.ts: scaleInput, softmax                           *)

\* a[k] of the language for the 1-based position k: undefined past the end
At(a, k) == IF k \in 1..Len(a) THEN a[k] ELSE Undefined

\* faulty variant: the "|| 1" fallback for a zero std is missing
scaleInputNoFallback(arr, scaler) ==
    [k \in 1..Len(arr) |->
        DDiv(DSub(ToNumber(arr[k]), ToNumber(At(scaler.mean, k))),
             ToNumber(At(scaler.std, k)))]

scaleInput(arr, scaler) ==
    [k \in 1..Len(arr) |->
        DDiv(DSub(ToNumber(arr[k]), ToNumber(At(scaler.mean, k))),
             IF Falsy(At(scaler.std, k)) THEN FromInt(1)
             ELSE ToNumber(At(scaler.std, k)))]

-----------------------------------------------------------------------------
(* Math.max, indexOf                                                       *)

\* Math.max(...arr): -Infinity for no argument, NaN when an argument is NaN,
\* and +0 rather than -0
MathMax(arr) ==
    LET nums == [k \in 1..Len(arr) |-> ToNumber(arr[k])]
    IN  IF Len(arr) = 0 THEN Inf(1)
        ELSE IF \E k \in 1..Len(arr) : IsNaN(nums[k]) THEN NaN
        ELSE nums[CHOOSE k \in 1..Len(arr) :
                    \A h \in 1..Len(arr) :
                        /\ ~Less(nums[k], nums[h])
                        /\ ~(nums[k] = Zero(1) /\ nums[h] = Zero(0))]

\* arr.indexOf(x), 0-based, -1 when absent; strict equality, so NaN is never found
indexOf(arr, x) ==
    LET hits == {k \in 1..Len(arr) : StrictEquals(arr[k], x)}
    IN  IF hits = {} THEN -1
        ELSE (CHOOSE k \in hits : \A h \in hits : k <= h) - 1

-----------------------------------------------------------------------------
(* Math.exp.  The language leaves its value to the engine; the function    *)
(* runs on Deno, whose engine V8 computes it as ieee754::exp, the          *)
(* algorithm of fdlibm's e_exp.c in double arithmetic: x = k ln2 + r with  *)
(* |r| <= 0.5 ln2, r held as hi - lo, e^r from a rational approximation    *)
(* in r, and the result scaled by 2^k.  Its result is within one unit in   *)
(* the last place of e^x and not always the double nearest to it.          *)

\* the constants of the algorithm; beyond o_threshold the result is Infinity,
\* below u_threshold it is 0, and E is returned for the argument 1
ExpConst ==
    [ln2HI |-> Finite(0, <<0, 15232, 9263, 1419>>, -53),              \* 6.93147180369123816490e-01
     ln2LO |-> Finite(0, <<15478, 5604, 7923, 1678>>, -85),           \* 1.90821492927058770002e-10
     invln2 |-> Finite(0, <<766, 5294, 5238, 1477>>, -52),            \* 1.44269504088896338700e+00
     o_threshold |-> Finite(0, <<14831, 15336, 9263, 1419>>, -43),    \* 7.09782712893383973096e+02
     u_threshold |-> Finite(1, <<12369, 5300, 4365, 1490>>, -43),     \* -7.45133219101941108420e+02
     E |-> Finite(0, <<5993, 11345, 12456, 1391>>, -51)]              \* 2.718281828459045

\* P1 .. P5
ExpP == <<Finite(0, <<5438, 5461, 5461, 1365>>, -55),     \* 1.66666666666666019037e-01
          Finite(1, <<15763, 6906, 5825, 1456>>, -61),    \* -2.77777777770155933842e-03
          Finite(0, <<7724, 15511, 9898, 1109>>, -66),    \* 6.61375632143793436117e-05
          Finite(1, <<11249, 5961, 5148, 1775>>, -72),    \* -1.65339022054652515390e-06
          Finite(0, <<9424, 2810, 13975, 1421>>, -77)>>   \* 4.13813679705723846039e-08

\* the least doubles whose high word is 0x3fd62e43 (above 0.5 ln2),
\* 0x3ff0a2b2 (1.5 ln2) and 0x3e300000 (2^-28)
HighWordBounds == [halfLn2 |-> Finite(0, <<0, 0, 9264, 1419>>, -54),
                   oneHalfLn2 |-> Finite(0, <<0, 0, 11040, 1064>>, -52),
                   tiny |-> Finite(0, <<0, 0, 0, 1024>>, -80)]

\* 2^k as a double, -1022 <= k <= 1023: twopk, and two1023, twom1000
TwoTo(k) == Finite(0, Pow2(52), k - 52)

\* (int) a: the integer part of a double |a| < 2^28
TruncInt(a) ==
    (IF a.s = 1 THEN -1 ELSE 1)
    * (Pad(ShiftRight(a.m, -a.e), 2)[1] + (LimbBase * Pad(ShiftRight(a.m, -a.e), 2)[2]))

\* c = x - t*(P1 + t*(P2 + t*(P3 + t*(P4 + t*P5)))) for t = x*x
ExpC(x, t) ==
    DSub(x, DMul(t, DAdd(ExpP[1], DMul(t, DAdd(ExpP[2], DMul(t, DAdd(ExpP[3],
         DMul(t, DAdd(ExpP[4], DMul(t, ExpP[5]))))))))))

\* k = 0: one - ((x*c)/(c - 2.0) - x)
ExpPrimary(x, c) ==
    DSub(FromInt(1), DSub(DDiv(DMul(x, c), DSub(c, FromInt(2))), x))

\* y * twopk; y * 2.0 * two1023 for k = 1024; y * twopk * twom1000 with
\* twopk = 2^(k + 1000) for k < -1021
ExpScaled(y, k) ==
    IF k >= -1021
    THEN (IF k = 1024 THEN DMul(DMul(y, FromInt(2)), TwoTo(1023)) ELSE DMul(y, TwoTo(k)))
    ELSE DMul(DMul(y, TwoTo(k + 1000)), TwoTo(-1000))

\* k # 0: y = one - ((lo - (x*c)/(2.0 - c)) - hi), scaled by 2^k
ExpReduced(hi, lo, x, c, k) ==
    ExpScaled(DSub(FromInt(1),
                   DSub(DSub(lo, DDiv(DMul(x, c), DSub(FromInt(2), c))), hi)), k)

\* c for the reduced argument x
ExpOfParts(hi, lo, x, k) == ExpReduced(hi, lo, x, ExpC(x, DMul(x, x)), k)

\* x = hi - lo
ExpHiLo(hi, lo, k) == ExpOfParts(hi, lo, DSub(hi, lo), k)

\* |x| >= 1.5 ln2: hi = x - t*ln2HI[0], lo = t*ln2LO[0] for t = k
ExpFar(x, k) ==
    ExpHiLo(DSub(x, DMul(FromInt(k), ExpConst.ln2HI)),
            DMul(FromInt(k), ExpConst.ln2LO), k)

\* Math.exp(x).  For 0.5 ln2 < |x| < 1.5 ln2, hi = x - ln2HI[xsb],
\* lo = ln2LO[xsb] and k = 1 - xsb - xsb; beyond, k is
\* (int)(invln2 * x + halF[xsb]); for |x| < 2^-28 the result is one + x; and
\* else k = 0.
Exp(x) ==
    IF x.k = "nan" THEN NaN
    ELSE IF x.k = "inf" THEN (IF x.s = 0 THEN x ELSE Zero(0))
    ELSE IF Less(ExpConst.o_threshold, x) THEN Infinity
    ELSE IF Less(x, ExpConst.u_threshold) THEN Zero(0)
    ELSE IF ~MagLess(x, HighWordBounds.halfLn2)
    THEN (IF MagLess(x, HighWordBounds.oneHalfLn2)
          THEN (IF x = FromInt(1) THEN ExpConst.E
                ELSE ExpHiLo(DSub(x, [ExpConst.ln2HI EXCEPT !.s = x.s]),
                             [ExpConst.ln2LO EXCEPT !.s = x.s], 1 - (2 * x.s)))
          ELSE ExpFar(x, TruncInt(DAdd(DMul(ExpConst.invln2, x),
                                       [Dec(1, 2) EXCEPT !.s = x.s]))))
    ELSE IF MagLess(x, HighWordBounds.tiny) THEN DAdd(FromInt(1), x)
    ELSE ExpPrimary(x, ExpC(x, DMul(x, x)))

-----------------------------------------------------------------------------
(* predict_disease/index.ts: softmax and the selection                     *)

\* arr.map((x) => Math.exp(x - max))
RECURSIVE Exps(_, _)
Exps(arr, max) ==
    IF Len(arr) = 0 THEN <<>>
    ELSE <<Exp(DSub(ToNumber(Head(arr)), max))>> \o Exps(Tail(arr), max)

\* exps.reduce((a, b) => a + b, 0)
RECURSIVE SumFrom(_, _, _)
SumFrom(a, k, s) == IF k > Len(a) THEN s ELSE SumFrom(a, k + 1, DAdd(s, a[k]))

\* exps.map((v) => v / sum)
RECURSIVE Quotients(_, _)
Quotients(exps, sum) ==
    IF Len(exps) = 0 THEN <<>>
    ELSE <<DDiv(Head(exps), sum)>> \o Quotients(Tail(exps), sum)

\* faulty variant: the exponentials are returned without the division by their sum
softmaxUnnormalised(arr) == Exps(arr, MathMax(arr))

Normalised(exps) == Quotients(exps, SumFrom(exps, 1, Zero(0)))

softmax(arr) == Normalised(Exps(arr, MathMax(arr)))

\* faulty variant: the last index of the maximum is taken
bestIndexLast(probs) ==
    LET hits == {k \in 1..Len(probs) : StrictEquals(probs[k], MathMax(probs))}
    IN  IF hits = {} THEN -1
        ELSE (CHOOSE k \in hits : \A h \in hits : h <= k) - 1

\* probs.indexOf(Math.max(...probs))
bestIndex(probs) == indexOf(probs, MathMax(probs))

\* labels[bestIndex] ?? bestIndex, as [threw, t, s, n].  Reading a property
\* of null throws a TypeError; an array, a string and a plain object give the
\* element, the character or the value under that index when there is one;
\* everything else gives undefined, and the raw index is taken.
NoPrediction == [threw |-> FALSE, t |-> "none", s |-> "", n |-> 0]

prediction(labels, idx) ==
    IF labels.kind = "null"
    THEN [threw |-> TRUE, t |-> "none", s |-> "", n |-> 0]
    ELSE IF idx + 1 \in 1..Len(labels.items)
    THEN [threw |-> FALSE, t |-> "string", s |-> labels.items[idx + 1], n |-> 0]
    ELSE [threw |-> FALSE, t |-> "number", s |-> "", n |-> idx]

-----------------------------------------------------------------------------
(* predict_disease/index.ts: loadModelFiles and the serve handler          *)
(*                                                                         *)
(* The artifact files are read from the working directory at run time.     *)
(* scaler.json and labels.json are [ok, ...]: ok is FALSE when the read or *)
(* JSON.parse throws.  booster_min.js is [kind, labels]:                   *)
(*   "module"  the text of the repository: an ES module with import and    *)
(*             export statements, which new Function rejects with a        *)
(*             SyntaxError;                                                *)
(*   "script"  the same functions as a classic script that binds "labels"  *)
(*             itself, to the value in the labels field;                   *)
(*   "unbound" the same functions as a classic script with no binding for  *)
(*             "labels": predictXGB throws a ReferenceError when called;   *)
(*   "missing" the read throws.                                            *)

\* line 9, line 10 and lines 13-14: [threw, value]
LoadScaler(f) == [threw |-> ~f.scaler.ok, value |-> f.scaler]
LoadLabels(f) == [threw |-> ~f.labels.ok, value |-> f.labels.value]
LoadBooster(f) == [threw |-> f.booster.kind \in {"missing", "module"}, value |-> f.booster]

\* line 16: what loadModelFiles returns once its three reads are through
loadModelFiles(scaler, labels, booster) ==
    [scaler |-> scaler, labels |-> labels, predictXGB |-> booster]

\* the call predictXGB(scaled) of line 53 on the function the booster text gave
Invoke(booster, features) ==
    IF booster.kind = "unbound" THEN [threw |-> TRUE, logits |-> <<>>]
    ELSE predictXGB(features, booster.labels)

NoLocals == [scaledDone |-> FALSE, scaled |-> <<>>, logits |-> <<>>, bestIndex |-> -1]

ErrorResponse(status, msg) ==
    [status |-> status, error |-> msg, hasResult |-> FALSE,
     prediction |-> NoPrediction, probabilities |-> <<>>]

\* JSON.stringify of a number: NaN and the infinities are written as null,
\* and -0 as 0
JSONNumber(v) == IF ~IsFinite(v) THEN JSNull ELSE IF IsZero(v) THEN Zero(0) ELSE v

\* Lines 50-63, one operator per statement; each local is handed on as a
\* parameter.  The result is [resp, locals].
Answered(sc, logits, probs, best, pred) ==
    [resp |-> IF pred.threw THEN ErrorResponse(500, "labels[bestIndex] threw")
              ELSE [status |-> 200, error |-> "", hasResult |-> TRUE,
                    prediction |-> pred,
                    probabilities |-> [k \in 1..Len(probs) |-> JSONNumber(probs[k])]],
     locals |-> [scaledDone |-> TRUE, scaled |-> sc, logits |-> logits,
                 bestIndex |-> best]]

Respond(m, sc, logits, probs, best) ==
    Answered(sc, logits, probs, best, prediction(m.labels, best))

Select(m, sc, logits, probs) == Respond(m, sc, logits, probs, bestIndex(probs))

Normalize(m, sc, logits) == Select(m, sc, logits, softmax(logits))

Scored(m, sc, r) ==
    IF r.threw
    THEN [resp |-> ErrorResponse(500, "predictXGB threw"),
          locals |-> [scaledDone |-> TRUE, scaled |-> sc, logits |-> <<>>,
                      bestIndex |-> -1]]
    ELSE Normalize(m, sc, r.logits)

Score(m, sc) == Scored(m, sc, Invoke(m.predictXGB, Array(sc)))

Scale(symptoms, m) == Score(m, scaleInput(symptoms, m.scaler))

-----------------------------------------------------------------------------
(* Inputs                                                                  *)

RECURSIVE SeqsUpTo(_, _)
SeqsUpTo(S, n) ==
    IF n = 0 THEN {<<>>}
    ELSE LET shorter == SeqsUpTo(S, n - 1)
         IN  shorter \cup {Append(q, x) : q \in shorter, x \in S}

SeqsOfLen(S, n) == {q \in SeqsUpTo(S, n) : Len(q) = n}

\* contents of labels.json: arrays of 0..n names, and values that are no array
LabelSets(n) ==
    {Array(SubSeq(<<"flu", "cold", "covid", "allergy", "asthma", "migraine">>, 1, k)) :
        k \in 0..n}
    \cup {Null, Scalar, StringValue("ab"), Object(<<>>), Object(<<"flu">>)}

\* scaleInput: raw values, means and stds
ScaleInputs ==
    UNION {[arr : SeqsOfLen({FromInt(-1), FromInt(0), FromInt(180), FromInt(1000000)}, n),
            scaler : [mean : SeqsOfLen({FromInt(0), FromInt(1)}, n),
                      std : SeqsOfLen({FromInt(0), FromInt(2), FromInt(3)}, n)]] :
           n \in 0..MaxArr}

\* predictXGB: scaled values, among them non-numbers and NaN
ScoreInputs ==
    [features : {Array(q) : q \in SeqsUpTo({FromInt(0), FromInt(1), Dec(-3, 2),
                                              JSString, JSNull, NaN}, MaxArr)}
                \cup {Null},
     labels : LabelSets(MaxLabels)]

\* softmax: logits, among them two that are 10^-8 apart, NaN and Infinity
LogitValues ==
    {FromInt(1), Dec(99999999, 100000000), FromInt(0), Dec(-5, 2), NaN, Infinity}

\* selection: probability vectors with ties for the maximum and with NaN,
\* and the vector that softmax returns for the logits [1, 1, 1]
UniformProbs == softmax(<<FromInt(1), FromInt(1), FromInt(1)>>)

SelectInputs ==
    [probs : SeqsUpTo({FromInt(0), Dec(1, 3), Dec(1, 2), FromInt(1), NaN}, MaxLogits)
             \cup {UniformProbs},
     labels : LabelSets(2)]

\* the handler: artifact files and requests (JSON carries no NaN; 1e999 parses
\* to Infinity)
NoScaler == [ok |-> FALSE, mean |-> <<>>, std |-> <<>>]

FileSets ==
    [scaler : {NoScaler,
               [ok |-> TRUE, mean |-> <<FromInt(0), FromInt(1)>>,
                std |-> <<FromInt(2), FromInt(0)>>],
               [ok |-> TRUE, mean |-> <<FromInt(1)>>, std |-> <<FromInt(3)>>]},
     labels : {[ok |-> FALSE, value |-> Null],
               [ok |-> TRUE, value |-> Null],
               [ok |-> TRUE, value |-> Array(<<"flu">>)]},
     booster : {[kind |-> "module", labels |-> Null],
                [kind |-> "unbound", labels |-> Null],
                [kind |-> "script", labels |-> Array(<<"flu", "cold">>)]}]

NoBooster == [kind |-> "missing", labels |-> Null]

\* the files before any is considered
NoFiles == [scaler |-> NoScaler, labels |-> [ok |-> FALSE, value |-> Null],
            booster |-> NoBooster]

\* the symptoms arrays of the requests: up to MaxSymptoms finite values, and
\* one array with an infinite value
SymptomArrays ==
    {Array(q) : q \in SeqsUpTo({FromInt(3)}, MaxSymptoms)} \cup {Array(<<Infinity>>)}

\* a request: a GET, or a POST whose body is text that is no JSON, the JSON
\* null, or an object whose symptoms field holds a value
Requests ==
    {[method |-> "GET", body |-> [kind |-> "null", symptoms |-> Null]]}
    \cup [method : {"POST"},
          body : {[kind |-> "invalid", symptoms |-> Null],
                  [kind |-> "null", symptoms |-> Null]}
                 \cup [kind : {"object"}, symptoms : SymptomArrays \cup {Null}]]

\* One run of the handler: where it stands, its request, what its reads have
\* returned, and once it has answered its response and its locals.
\*   "json"     at the await of line 38
\*   "scaler"   in loadModelFiles at the await of line 9
\*   "labels"   in loadModelFiles at the await of line 10
\*   "booster"  in loadModelFiles at the await of line 13
\*   "loaded"   at the await of line 48, loadModelFiles having returned or
\*              thrown (err names what threw)
IdleRun ==
    [pc |-> "idle",
     req |-> [method |-> "", body |-> [kind |-> "invalid", symptoms |-> Null]],
     scaler |-> NoScaler, labels |-> Null,
     booster |-> NoBooster, err |-> "",
     resp |-> ErrorResponse(0, ""), locals |-> NoLocals]

\* what loadModelFiles can return on the files of the model
LoadedModels ==
    {loadModelFiles(f.scaler, f.labels.value, f.booster) :
        f \in {g \in FileSets : /\ ~LoadScaler(g).threw
                                /\ ~LoadLabels(g).threw
                                /\ ~LoadBooster(g).threw}}

\* the function that has the value p[2] at p[1] for each pair p of P
RECURSIVE AnswersOn(_)
AnswersOn(P) ==
    LET p == CHOOSE x \in P : TRUE
    IN  IF P = {p} THEN p[1] :> p[2]
        ELSE (p[1] :> p[2]) @@ AnswersOn(P \ {p})

\* lines 50-70 on every array of symptoms and every loaded model, worked out
\* once
Lines50To70 ==
    AnswersOn({<<in, Scale(in[1].items, in[2])>> : in \in SymptomArrays \X LoadedModels})

-----------------------------------------------------------------------------
(* State machines.  The pipeline stages are pure functions: each has a     *)
(* specification that draws its arguments in Init and applies it once.     *)
(* Spec is the predict_disease process: the runs of the handler advance    *)
(* from one await to the next and interleave there, and the files on disk  *)
(* may be replaced at any time.  loads counts the calls of loadModelFiles. *)

ExtractIdle == message = "" /\ severity = 0 /\ vec = <<>>
ScaleIdle == /\ scaleArgs = [arr |-> <<>>, scaler |-> [mean |-> <<>>, std |-> <<>>]]
             /\ scaled = [done |-> FALSE, out |-> <<>>]
ScoreIdle == /\ scoreArgs = [features |-> Null, labels |-> Null]
             /\ scoreOut = [done |-> FALSE, threw |-> FALSE, logits |-> <<>>]
SoftmaxIdle == /\ smArg = <<>>
               /\ smOut = [done |-> FALSE, probs |-> <<>>]
SelectIdle == /\ selArg = [probs |-> <<>>, labels |-> Null]
              /\ selOut = [done |-> FALSE, bestIndex |-> -1,
                           prediction |-> NoPrediction]
ServerIdle == /\ files = NoFiles
              /\ loads = 0
              /\ runs = [i \in 1..MaxRequests |-> IdleRun]

extractVars == <<message, severity, vec>>
scaleVars == <<scaleArgs, scaled>>
scoreVars == <<scoreArgs, scoreOut>>
softmaxVars == <<smArg, smOut>>
selectVars == <<selArg, selOut>>
serverVars == <<files, loads, runs>>

\* ---- process_message: extractSeverity, buildFeatureVector
InitExtract ==
    /\ message \in MessagesOf(MaxWords) \cup {ScenarioText}
    /\ severity = 0
    /\ vec = <<>>
    /\ ScaleIdle /\ ScoreIdle /\ SoftmaxIdle /\ SelectIdle /\ ServerIdle

CallExtractSeverity ==
    /\ severity = 0
    /\ severity' = extractSeverity(message)
    /\ UNCHANGED <<message, vec, scaleVars, scoreVars, softmaxVars, selectVars, serverVars>>

CallBuildFeatureVector ==
    /\ vec = <<>>
    /\ vec' = buildFeatureVector(message)
    /\ UNCHANGED <<message, severity, scaleVars, scoreVars, softmaxVars, selectVars, serverVars>>

NextExtract == CallExtractSeverity \/ CallBuildFeatureVector

SpecExtract == InitExtract /\ [][NextExtract]_vars

\* ---- scaleInput
InitScale ==
    /\ scaleArgs \in ScaleInputs
    /\ scaled = [done |-> FALSE, out |-> <<>>]
    /\ ExtractIdle /\ ScoreIdle /\ SoftmaxIdle /\ SelectIdle /\ ServerIdle

CallScaleInput ==
    /\ ~scaled.done
    /\ scaled' = [done |-> TRUE, out |-> scaleInput(scaleArgs.arr, scaleArgs.scaler)]
    /\ UNCHANGED <<scaleArgs, extractVars, scoreVars, softmaxVars, selectVars, serverVars>>

SpecScale == InitScale /\ [][CallScaleInput]_vars

\* ---- predictXGB
InitScore ==
    /\ scoreArgs \in ScoreInputs
    /\ scoreOut = [done |-> FALSE, threw |-> FALSE, logits |-> <<>>]
    /\ ExtractIdle /\ ScaleIdle /\ SoftmaxIdle /\ SelectIdle /\ ServerIdle

Returned(r) == [done |-> TRUE, threw |-> r.threw, logits |-> r.logits]

CallPredictXGB ==
    /\ ~scoreOut.done
    /\ scoreOut' = Returned(predictXGB(scoreArgs.features, scoreArgs.labels))
    /\ UNCHANGED <<scoreArgs, extractVars, scaleVars, softmaxVars, selectVars, serverVars>>

SpecScore == InitScore /\ [][CallPredictXGB]_vars

\* ---- softmax
InitSoftmax ==
    /\ smArg \in SeqsUpTo(LogitValues, MaxLogits)
    /\ smOut = [done |-> FALSE, probs |-> <<>>]
    /\ ExtractIdle /\ ScaleIdle /\ ScoreIdle /\ SelectIdle /\ ServerIdle

CallSoftmax ==
    /\ ~smOut.done
    /\ smOut' = [done |-> TRUE, probs |-> softmax(smArg)]
    /\ UNCHANGED <<smArg, extractVars, scaleVars, scoreVars, selectVars, serverVars>>

SpecSoftmax == InitSoftmax /\ [][CallSoftmax]_vars

\* ---- the selection of the handler's lines 56-57
InitSelect ==
    /\ selArg \in SelectInputs
    /\ selOut = [done |-> FALSE, bestIndex |-> -1, prediction |-> NoPrediction]
    /\ ExtractIdle /\ ScaleIdle /\ ScoreIdle /\ SoftmaxIdle /\ ServerIdle

SelectedAt(labels, best) ==
    [done |-> TRUE, bestIndex |-> best, prediction |-> prediction(labels, best)]

CallSelect ==
    /\ ~selOut.done
    /\ selOut' = SelectedAt(selArg.labels, bestIndex(selArg.probs))
    /\ UNCHANGED <<selArg, extractVars, scaleVars, scoreVars, softmaxVars, serverVars>>

SpecSelect == InitSelect /\ [][CallSelect]_vars

\* ---- the predict_disease process
Init ==
    /\ files \in FileSets
    /\ loads = 0
    /\ runs = [i \in 1..MaxRequests |-> IdleRun]
    /\ ExtractIdle /\ ScaleIdle /\ ScoreIdle /\ SoftmaxIdle /\ SelectIdle

\* the run has answered
Finish(r, resp, locals) == [r EXCEPT !.pc = "done", !.resp = resp, !.locals = locals]

Completed(r, out) == Finish(r, out.resp, out.locals)

\* lines 34-36: the handler is entered and runs up to the await of line 38
Entered(req) ==
    IF req.method # "POST"
    THEN Finish([IdleRun EXCEPT !.req = req], ErrorResponse(405, ""), NoLocals)
    ELSE [IdleRun EXCEPT !.pc = "json", !.req = req]

Receive(i, req) ==
    /\ runs[i].pc = "idle"
    /\ \A h \in 1..(i - 1) : runs[h].pc # "idle"
    /\ runs' = [runs EXCEPT ![i] = Entered(req)]
    /\ UNCHANGED <<files, loads, extractVars, scaleVars, scoreVars, softmaxVars, selectVars>>

\* lines 38-48: req.json() has settled; the run goes on to the call of
\* loadModelFiles and in it to the await of line 9
Parsed(r) ==
    IF r.req.body.kind = "invalid"
    THEN Finish(r, ErrorResponse(500, "req.json() threw"), NoLocals)
    ELSE IF r.req.body.kind = "null"
    THEN Finish(r, ErrorResponse(500, "body.symptoms threw"), NoLocals)
    ELSE IF ~IsArray(r.req.body.symptoms)
    THEN Finish(r, ErrorResponse(400, "symptoms must be array"), NoLocals)
    ELSE [r EXCEPT !.pc = "scaler"]

BodyRead(i) ==
    /\ runs[i].pc = "json"
    /\ runs' = [runs EXCEPT ![i] = Parsed(runs[i])]
    /\ loads' = IF Parsed(runs[i]).pc = "scaler" THEN loads + 1 ELSE loads
    /\ UNCHANGED <<files, extractVars, scaleVars, scoreVars, softmaxVars, selectVars>>

\* loadModelFiles has thrown: the handler is resumed at line 48 later
Rejected(r, msg) == [r EXCEPT !.pc = "loaded", !.err = msg]

\* line 9: the read of scaler.json has settled
ScalerLoaded(r, l) ==
    IF l.threw THEN Rejected(r, "scaler.json")
    ELSE [r EXCEPT !.pc = "labels", !.scaler = l.value]

ReadScaler(i) ==
    /\ runs[i].pc = "scaler"
    /\ runs' = [runs EXCEPT ![i] = ScalerLoaded(runs[i], LoadScaler(files))]
    /\ UNCHANGED <<files, loads, extractVars, scaleVars, scoreVars, softmaxVars, selectVars>>

\* line 10: the read of labels.json has settled
LabelsLoaded(r, l) ==
    IF l.threw THEN Rejected(r, "labels.json")
    ELSE [r EXCEPT !.pc = "booster", !.labels = l.value]

ReadLabels(i) ==
    /\ runs[i].pc = "labels"
    /\ runs' = [runs EXCEPT ![i] = LabelsLoaded(runs[i], LoadLabels(files))]
    /\ UNCHANGED <<files, loads, extractVars, scaleVars, scoreVars, softmaxVars, selectVars>>

\* lines 13-16: the read of booster_min.js has settled, the text is
\* evaluated and loadModelFiles returns
BoosterLoaded(r, l) ==
    IF l.threw THEN Rejected(r, "booster_min.js")
    ELSE [r EXCEPT !.pc = "loaded", !.booster = l.value]

ReadBooster(i) ==
    /\ runs[i].pc = "booster"
    /\ runs' = [runs EXCEPT ![i] = BoosterLoaded(runs[i], LoadBooster(files))]
    /\ UNCHANGED <<files, loads, extractVars, scaleVars, scoreVars, softmaxVars, selectVars>>

\* lines 48-70: the handler is resumed with what loadModelFiles returned, or
\* in its catch block with what it threw; it has no await left and answers
Resumed(r) ==
    IF r.err # "" THEN Finish(r, ErrorResponse(500, r.err), NoLocals)
    ELSE Completed(r, Lines50To70[<<r.req.body.symptoms,
                                    loadModelFiles(r.scaler, r.labels, r.booster)>>])

Resume(i) ==
    /\ runs[i].pc = "loaded"
    /\ runs' = [runs EXCEPT ![i] = Resumed(runs[i])]
    /\ UNCHANGED <<files, loads, extractVars, scaleVars, scoreVars, softmaxVars, selectVars>>

\* the environment: the artifact files are replaced
ReplaceFiles ==
    /\ \E f \in FileSets :
          /\ f # files
          /\ \/ f.scaler = files.scaler /\ f.labels = files.labels
             \/ f.scaler = files.scaler /\ f.booster = files.booster
             \/ f.labels = files.labels /\ f.booster = files.booster
          /\ files' = f
    /\ UNCHANGED <<loads, runs, extractVars, scaleVars, scoreVars, softmaxVars, selectVars>>

Next ==
    \/ \E i \in 1..MaxRequests : \E req \in Requests : Receive(i, req)
    \/ \E i \in 1..MaxRequests : BodyRead(i)
    \/ \E i \in 1..MaxRequests : ReadScaler(i)
    \/ \E i \in 1..MaxRequests : ReadLabels(i)
    \/ \E i \in 1..MaxRequests : ReadBooster(i)
    \/ \E i \in 1..MaxRequests : Resume(i)
    \/ ReplaceFiles

Spec == Init /\ [][Next]_vars

-----------------------------------------------------------------------------
(* Properties                                                              *)

\* 1-based position of the slot of a feature name
SlotOf(name) == CHOOSE k \in 1..Len(FEATURE_NAMES) : FEATURE_NAMES[k] = name

\* the keyword occurs in the text when letter case is ignored
OccursIgnoringCase(text, kw) ==
    \E p \in 0..(Len(text) - Len(kw)) :
        toLowerCase(SubSeq(text, p + 1, p + Len(kw))) = toLowerCase(kw)

\* C1 as stated: buildFeatureVector("I have a severe headache and mild cough")
\* has 3 in the headache slot, 1 in the cough slot, 0 in every other symptom
\* slot and the vital defaults in slots 0..5.
C1_ScenarioAsStated ==
    (message = ScenarioText /\ vec # <<>>) =>
        /\ vec[SlotOf("headache")] = 3
        /\ vec[SlotOf("cough")] = 1
        /\ \A k \in 7..46 : k \notin {SlotOf("headache"), SlotOf("cough")} => vec[k] = 0
        /\ SubSeq(vec, 1, 6) = <<25, 1, 0, 80, 120, 180>>

\* C1 amended: the one severity of the message, 3 for "severe", is written to
\* both the headache slot and the cough slot; every other symptom slot is 0
\* and slots 0..5 hold the vital defaults.
C1_ScenarioAmended ==
    (message = ScenarioText /\ vec # <<>>) =>
        /\ vec[SlotOf("headache")] = 3
        /\ vec[SlotOf("cough")] = 3
        /\ \A k \in 7..46 : k \notin {SlotOf("headache"), SlotOf("cough")} => vec[k] = 0
        /\ SubSeq(vec, 1, 6) = <<25, 1, 0, 80, 120, 180>>

C1_Witness == message = ScenarioText /\ vec # <<>> /\ Len(vec) = 46

\* the lexicon in its declared order, as the claim lists it
DeclaredLexicon == <<
    [kw |-> "severe", level |-> 3], [kw |-> "high", level |-> 3],
    [kw |-> "bad", level |-> 3], [kw |-> "moderate", level |-> 2],
    [kw |-> "medium", level |-> 2], [kw |-> "mild", level |-> 1],
    [kw |-> "slight", level |-> 1] >>

\* C5: extractSeverity returns the severity of the first keyword, in declared
\* lexicon order, that occurs in the message ignoring case, wherever the
\* keywords stand in the text ("mild" together with "severe" gives 3), and 1
\* when no keyword occurs.
C5_FirstKeywordInLexiconOrder ==
    severity # 0 =>
        LET occ(k) == OccursIgnoringCase(message, DeclaredLexicon[k].kw)
        IN  /\ (\A k \in 1..7 : ~occ(k)) => severity = 1
            /\ \A k \in 1..7 :
                 (occ(k) /\ \A h \in 1..(k - 1) : ~occ(h))
                    => severity = DeclaredLexicon[k].level
            /\ (occ(1) /\ occ(6)) => severity = 3

\* "mild" stands before "severe" in the text, in another letter case
C5_Witness == message = "MILD severe" /\ severity = 3

\* C6: for every text, the vector has 46 entries, slots 0..5 are 25, 1, 0, 80,
\* 120, 180, and every slot 6..45 holds 0 or the severity of the message,
\* which is 1, 2 or 3.
C6_VectorShape ==
    vec # <<>> =>
        /\ Len(vec) = 46
        /\ SubSeq(vec, 1, 6) = <<25, 1, 0, 80, 120, 180>>
        /\ \A k \in 7..46 : vec[k] \in {0, 1, 2, 3}
        /\ severity # 0 => \A k \in 7..46 : vec[k] \in {0, severity}

\* a text that names a vital and a symptom, with a severity above the default
C6_Witness ==
    /\ message = "Moderate Dry Cough age"
    /\ severity = 2
    /\ vec # <<>> /\ vec[SlotOf("dry_cough")] = 2 /\ vec[SlotOf("cough")] = 2
    /\ vec[SlotOf("age")] = 25

\* x <= y + t and y <= x + t for integers in limbs
Within(x, y, t) == ~BigLess(BigAdd(y, t), x) /\ ~BigLess(BigAdd(x, t), y)

\* the integer that the double a is (|a| < 2^28)
IntOf(a) == TruncInt(a)

\* no double is nearer to n / d than p, which has the sign of n / d, for
\* integers n and d > 0: |2 * p.m * d - |n| * 2^(1 - p.e)| <= d
NearestToQuotient(n, d, p) ==
    /\ p.k = "fin" /\ p.e <= 0
    /\ n # 0 => p.s = (IF n < 0 THEN 1 ELSE 0)
    /\ Within(BigMul(ShiftLeft(p.m, 1), ToLimbs(d)),
              ShiftLeft(ToLimbs(Abs(n)), 1 - p.e), ToLimbs(d))

\* C10: for v and a scaler of the same length, scaleInput(v, s)[i] is
\* (v[i] - mean[i]) / std[i] for a non-zero std[i] and v[i] - mean[i] for a
\* zero std[i], as the double nearest to that value; the result is as long
\* as v, finite, and not clamped.
C10_ScaleElementwise ==
    scaled.done =>
        /\ Len(scaled.out) = Len(scaleArgs.arr)
        /\ \A k \in 1..Len(scaleArgs.arr) :
             LET v == IntOf(scaleArgs.arr[k])
                 mu == IntOf(scaleArgs.scaler.mean[k])
                 sd == IntOf(scaleArgs.scaler.std[k])
             IN  /\ IsFinite(scaled.out[k])
                 /\ sd # 0 => NearestToQuotient(v - mu, sd, scaled.out[k])
                 /\ sd = 0 => scaled.out[k] = FromInt(v - mu)

\* a zero std next to an extreme raw value
C10_Witness ==
    /\ scaled.done
    /\ scaleArgs.arr = <<FromInt(1000000), FromInt(180)>>
    /\ scaleArgs.scaler = [mean |-> <<FromInt(1), FromInt(0)>>,
                           std |-> <<FromInt(0), FromInt(3)>>]
    /\ scaled.out = <<FromInt(999999), FromInt(60)>>
    /\ IntOf(scaled.out[1]) = 999999

\* |p - c / 50| <= 2^-56 for a double p of exponent e >= -80 and |c| < 50:
\* |50 * p.m * 2^(e + 80) - |c| * 2^80| <= 50 * 2^24, with the sign of c
CloseToFiftieth(c, p) ==
    IF c = 0 THEN IsZero(p)
    ELSE /\ p.k = "fin" /\ p.e >= -80
         /\ p.s = (IF c < 0 THEN 1 ELSE 0)
         /\ Within(BigMul(ShiftLeft(p.m, p.e + 80), ToLimbs(50)),
                   ShiftLeft(ToLimbs(Abs(c)), 80), ShiftLeft(ToLimbs(50), 24))

\* C9: for an array argument predictXGB returns exactly M logits, M the size
\* of the label set, and for an all-zero vector logit[i] is the double
\* product ((i * 37) mod 7 - 3) * 0.02, which is within 2^-56 of the exact
\* ((i * 37) mod 7 - 3) / 50.
C9_PlaceholderLogits ==
    (scoreOut.done /\ IsArray(scoreArgs.features) /\ IsArray(scoreArgs.labels)) =>
        /\ ~scoreOut.threw
        /\ Len(scoreOut.logits) = Len(scoreArgs.labels.items)
        /\ (\A j \in 1..Len(scoreArgs.features.items) :
                scoreArgs.features.items[j] = FromInt(0))
             => \A i \in 0..(Len(scoreArgs.labels.items) - 1) :
                    /\ scoreOut.logits[i + 1]
                         = DMul(FromInt(((i * 37) % 7) - 3), Dec(2, 100))
                    /\ CloseToFiftieth(((i * 37) % 7) - 3, scoreOut.logits[i + 1])

C9_Witness ==
    /\ scoreOut.done
    /\ scoreArgs.features = Array(<<FromInt(0), FromInt(0)>>)
    /\ Len(scoreArgs.labels.items) = 3
    /\ scoreOut.logits = <<Neg(Dec(6, 100)), Neg(Dec(2, 100)), Dec(2, 100)>>

\* the sum of the doubles p[k], p[k + 1], ... as an integer times 2^e, where
\* e is at most each of their exponents
RECURSIVE ExactSum(_, _, _)
ExactSum(p, k, e) ==
    IF k > Len(p) THEN <<0>>
    ELSE BigAdd(ShiftLeft(p[k].m, p[k].e - e), ExactSum(p, k + 1, e))

LeastExponent(p) ==
    CHOOSE e \in {p[k].e : k \in 1..Len(p)} : \A k \in 1..Len(p) : e <= p[k].e

\* |x * 2^e - 1| <= 10^-9 for e <= 0, that is |x * 10^9 - 10^9 / 2^e| <= 1 / 2^e
SumsToOneAt(x, e) ==
    Within(BigMul(x, ToLimbs(1000000000)), ShiftLeft(ToLimbs(1000000000), -e),
           Pow2(-e))

SumsToOne(p) ==
    /\ \A k \in 1..Len(p) : p[k].k = "fin" /\ p[k].s = 0 /\ p[k].e <= 0
    /\ SumsToOneAt(ExactSum(p, 1, LeastExponent(p)), LeastExponent(p))

\* no double is nearer to 1 / M than p: |p.m * 2^p.e - 1/M| <= 2^p.e / 2
NearestToOneOver(M, p) ==
    /\ p.k = "fin" /\ p.s = 0 /\ p.e <= 0
    /\ Within(BigMul(ShiftLeft(p.m, 1), ToLimbs(M)), Pow2(1 - p.e), ToLimbs(M))

\* C8: for a non-empty vector of finite logits softmax returns as many
\* entries, each a finite double that is not negative, whose exact sum is
\* within 10^-9 of 1; equal logits give the double nearest to 1/M in each
\* entry.
C8_SoftmaxDistribution ==
    (/\ smOut.done
     /\ Len(smArg) > 0
     /\ \A k \in 1..Len(smArg) : IsFinite(smArg[k])) =>
        /\ Len(smOut.probs) = Len(smArg)
        /\ \A k \in 1..Len(smOut.probs) :
             IsFinite(smOut.probs[k]) /\ ~Less(smOut.probs[k], Zero(0))
        /\ SumsToOne(smOut.probs)
        /\ (\A k \in 1..Len(smArg) : smArg[k] = smArg[1])
             => \A k \in 1..Len(smOut.probs) :
                    NearestToOneOver(Len(smArg), smOut.probs[k])

\* three different logits, one of them 10^-8 below the maximum
C8_Witness ==
    /\ smOut.done
    /\ smArg = <<Dec(99999999, 100000000), FromInt(1), Dec(-5, 2)>>
    /\ Less(smOut.probs[3], smOut.probs[1]) /\ Less(smOut.probs[1], smOut.probs[2])

\* C7: the selected index is the lowest index at which the probabilities
\* attain their maximum (0 for the probabilities of the logits [1, 1, 1]);
\* with an array of labels the prediction is labels[index] when the index is
\* inside the array and the raw index, not an error, otherwise.
C7_FirstMaximumAndFallback ==
    selOut.done =>
        LET p == selArg.probs
            i == selOut.bestIndex
        IN  /\ (Len(p) > 0 /\ \A k \in 1..Len(p) : ~IsNaN(p[k])) =>
                  /\ i \in 0..(Len(p) - 1)
                  /\ \A h \in 1..Len(p) : ~Less(p[i + 1], p[h])
                  /\ \A h \in 1..i : Less(p[h], p[i + 1])
            /\ p = UniformProbs => i = 0
            /\ IsArray(selArg.labels) =>
                 /\ ~selOut.prediction.threw
                 /\ IF i \in 0..(Len(selArg.labels.items) - 1)
                    THEN selOut.prediction.t = "string"
                         /\ selOut.prediction.s = selArg.labels.items[i + 1]
                    ELSE selOut.prediction.t = "number" /\ selOut.prediction.n = i

\* a tie for the maximum at indices 1 and 2, outside a label set of one label
C7_Witness ==
    /\ selOut.done
    /\ selArg.probs = <<FromInt(0), Dec(1, 2), Dec(1, 2)>>
    /\ selArg.labels = Array(<<"flu">>)
    /\ selOut.bestIndex = 1
    /\ selOut.prediction = [threw |-> FALSE, t |-> "number", s |-> "", n |-> 1]

\* the run has answered a POST whose symptoms field is an array
ArrayPost(r) ==
    /\ r.pc = "done"
    /\ r.req.method = "POST"
    /\ r.req.body.kind = "object"
    /\ IsArray(r.req.body.symptoms)

\* C2: a symptoms array that reaches scaleInput with a length other than that
\* of scaler.mean / scaler.std is answered with an error and no prediction /
\* probabilities.
C2_ShapeMismatchRejected ==
    \A i \in 1..MaxRequests :
        (/\ ArrayPost(runs[i])
         /\ runs[i].locals.scaledDone
         /\ Len(runs[i].req.body.symptoms.items) # Len(runs[i].scaler.mean)) =>
            runs[i].resp.status >= 400 /\ ~runs[i].resp.hasResult

NonFinite(a) == \E k \in 1..Len(a) : ~IsFinite(a[k])

\* C3: when scaling or scoring produces a non-finite value for a POST with an
\* array of symptoms, the answer is a 5xx error and carries no result.
C3_NonFiniteIsServerError ==
    \A i \in 1..MaxRequests :
        (/\ ArrayPost(runs[i])
         /\ NonFinite(runs[i].locals.scaled) \/ NonFinite(runs[i].locals.logits)) =>
            runs[i].resp.status >= 500 /\ ~runs[i].resp.hasResult

\* C4: over the requests received by one process loadModelFiles is called at
\* most once.
C4_LoadedAtMostOnce == loads <= 1

=============================================================================
